---------------------------- MODULE Spec2Model ----------------------------
(***************************************************************************)
(* Pest Bot backend (src/main.py): credential resolution and Knowledge     *)
(* Base loading at import time, keyword retrieval, and the /chat, /image,  *)
(* /voice and / handlers on one asyncio event loop.                        *)
(*                                                                         *)
(* Python strings are sequences of one-character strings, so that lower(), *)
(* split(), strip(), the `in` substring test, str.join and the csv row     *)
(* split are computed and not assumed.                                     *)
(***************************************************************************)
EXTENDS Integers, Sequences, FiniteSets, TLC

VARIABLES
    phase,          \* "startup" | "loading" | "serving" | "refused" | "harness"
    env_key,        \* os.getenv("GROQ_API_KEY"): None or a string
    key_file,       \* config/groq_key.txt: Absent or its content
    GROQ_API_KEY,   \* the module global
    data_dir,       \* the data folder: whether it exists, and its listing
    file_idx,       \* position of the loader's for loop in the listing
    RAG_KB,         \* the module global: sequence of Knowledge Lines
    pc,             \* per request: position of its handler coroutine
    req,            \* per request: the inbound payload
    rag,            \* per request: the value retrieve_relevant_chunks returned
    ctx,            \* per request: rag_context received by ask_groq
    resp,           \* per request: the HTTP response (status, answer)
    retrieve_calls, \* per request: calls of retrieve_relevant_chunks
    groq_calls,     \* per request: calls of client.chat.completions.create
    groq_failed,    \* per request: the external call raised
    running,        \* the request whose handler holds the event loop, 0 if none
    h_pc,           \* retrieval harness: "call" | "returned"
    h_query,        \* retrieval harness: the query argument
    h_limit,        \* retrieval harness: the limit argument
    h_ret           \* retrieval harness: the returned string

bootVars  == <<phase, env_key, key_file, GROQ_API_KEY, data_dir, file_idx>>
srvVars   == <<pc, req, rag, ctx, resp, retrieve_calls, groq_calls, groq_failed, running>>
harnVars  == <<h_pc, h_query, h_limit, h_ret>>
vars      == <<bootVars, RAG_KB, srvVars, harnVars>>

\* values that are not strings: each a sequence no Python string equals
None   == <<"None">>
Absent == <<"Absent">>

\* os.path.exists(DATA_FOLDER) is false
NoDir  == [exists |-> FALSE, files |-> <<>>]
Listing(files) == [exists |-> TRUE, files |-> files]

-----------------------------------------------------------------------------
(* Python string primitives *)

Whitespace == {" ", "\t", "\n"}
NL == "\n"

UpperAlpha == <<"A","B","C","D","E","F","G","H","I","J","K","L","M",
                "N","O","P","Q","R","S","T","U","V","W","X","Y","Z">>
LowerAlpha == <<"a","b","c","d","e","f","g","h","i","j","k","l","m",
                "n","o","p","q","r","s","t","u","v","w","x","y","z">>

Min(a, b) == IF a <= b THEN a ELSE b

\* str.lower() on one character
LowerChar(c) ==
    IF \E i \in 1..Len(UpperAlpha) : UpperAlpha[i] = c
    THEN LowerAlpha[CHOOSE i \in 1..Len(UpperAlpha) : UpperAlpha[i] = c]
    ELSE c

\* str.lower()
Lower(s) == [i \in 1..Len(s) |-> LowerChar(s[i])]

\* str.split() with no separator: runs of whitespace separate, no empty words
RECURSIVE SplitFrom(_, _, _)
SplitFrom(s, i, cur) ==
    IF i > Len(s)
    THEN (IF cur = <<>> THEN <<>> ELSE <<cur>>)
    ELSE IF s[i] \in Whitespace
         THEN (IF cur = <<>> THEN <<>> ELSE <<cur>>) \o SplitFrom(s, i + 1, <<>>)
         ELSE SplitFrom(s, i + 1, Append(cur, s[i]))

Split(s) == SplitFrom(s, 1, <<>>)

\* `word in line`: substring test
Contains(word, line) ==
    \E i \in 1..(Len(line) - Len(word) + 1) :
        SubSeq(line, i, i + Len(word) - 1) = word

\* sep.join(parts)
RECURSIVE Join(_, _)
Join(parts, sep) ==
    IF parts = <<>> THEN <<>>
    ELSE IF Len(parts) = 1 THEN parts[1]
    ELSE parts[1] \o sep \o Join(Tail(parts), sep)

\* str.strip(): leading and trailing whitespace removed
RECURSIVE LStrip(_)
LStrip(s) == IF s # <<>> /\ s[1] \in Whitespace THEN LStrip(Tail(s)) ELSE s

RECURSIVE RStrip(_)
RStrip(s) ==
    IF s # <<>> /\ s[Len(s)] \in Whitespace
    THEN RStrip(SubSeq(s, 1, Len(s) - 1)) ELSE s

Strip(s) == RStrip(LStrip(s))

\* str.endswith(suffix)
EndsWith(s, suffix) ==
    /\ Len(s) >= Len(suffix)
    /\ SubSeq(s, Len(s) - Len(suffix) + 1, Len(s)) = suffix

-----------------------------------------------------------------------------
(* retrieve_relevant_chunks *)

DefaultLimit == 5

\* a match only on a whole word of the line
LineMatches_wholeword(line, q) ==
    \E k \in 1..Len(Split(q)) : \E j \in 1..Len(Split(Lower(line))) :
        Split(q)[k] = Split(Lower(line))[j]

\* any(word in line.lower() for word in q.split())
LineMatches(line, q) ==
    \E k \in 1..Len(Split(q)) : Contains(Split(q)[k], Lower(line))

\* the for loop over RAG_KB from position i with `results` collected so far
RECURSIVE ScanFrom(_, _, _, _, _)
ScanFrom(kb, q, limit, i, results) ==
    IF i > Len(kb) THEN results
    ELSE LET r2 == IF LineMatches(kb[i], q) THEN Append(results, kb[i])
                   ELSE results
         IN  IF Len(r2) >= limit THEN r2
             ELSE ScanFrom(kb, q, limit, i + 1, r2)

\* the body of retrieve_relevant_chunks, reading the global RAG_KB
retrieve_relevant_chunks(query, limit) ==
    LET results == ScanFrom(RAG_KB, Lower(query), limit, 1, <<>>)
    IN  IF results # <<>> THEN Join(results, <<NL>>) ELSE <<>>

-----------------------------------------------------------------------------
(* Retrieval harness: the function applied to bounded inputs *)

MaxKB    == 3
MaxLimit == 3

KBLines == { <<"a", "p", "h", "i", "d", " ", "c", "o", "l", "o", "n", "y">>, <<"f", "u", "n", "g", "u", "s", " ", "s", "t", "e", "m", " ", "l", "o", "w">>, <<"A", "p", "h", "i", "d", " ", "L", "E", "A", "F">>, <<>> }

Queries == { <<"a", "p", "h", "i", "d", " ", "t", "r", "e", "a", "t", "m", "e", "n", "t">>, <<"A", "P", "H", "I", "D">>, <<"s", "t", "e", "m", " ", " ", "l", "e", "a", "f">>, <<"c", "o", "l">>,
             <<"x", "y", "z">>, <<" ", "\t", " ">>, <<>> }

\* the limits tried: zero, a negative one, and 1..MaxLimit
Limits == <<0, -1>> \o [i \in 1..MaxLimit |-> i]

SeqsUpTo(S, n) == UNION { [1..k -> S] : k \in 0..n }

MaxReqs == 2
Reqs == 1..MaxReqs
IdleReq == [kind |-> "none"]
NoResp  == [status |-> 0, answer |-> None]

SrvQuiet ==
    /\ pc = [r \in Reqs |-> "idle"]
    /\ req = [r \in Reqs |-> IdleReq]
    /\ rag = [r \in Reqs |-> None]
    /\ ctx = [r \in Reqs |-> None]
    /\ resp = [r \in Reqs |-> NoResp]
    /\ retrieve_calls = [r \in Reqs |-> 0]
    /\ groq_calls = [r \in Reqs |-> 0]
    /\ groq_failed = [r \in Reqs |-> FALSE]
    /\ running = 0

HarnQuiet ==
    /\ h_pc = "off"
    /\ h_query = <<>>
    /\ h_limit = DefaultLimit
    /\ h_ret = None

InitRetrieve ==
    /\ phase = "harness"
    /\ env_key = None /\ key_file = Absent /\ GROQ_API_KEY = None
    /\ data_dir = NoDir /\ file_idx = 0
    /\ \E k \in 1..Len(Limits) : h_limit = Limits[k]
    /\ RAG_KB \in SeqsUpTo(KBLines, MaxKB)
    /\ h_query \in Queries
    /\ SrvQuiet
    /\ h_pc = "call"
    /\ h_ret = None

CallRetrieve ==
    /\ h_pc = "call"
    /\ h_ret' = retrieve_relevant_chunks(h_query, h_limit)
    /\ h_pc' = "returned"
    /\ UNCHANGED <<bootVars, RAG_KB, srvVars, h_query, h_limit>>

\* the number of lines of a returned context string
NumLines(s) ==
    IF s = <<>> THEN 0 ELSE 1 + Cardinality({i \in 1..Len(s) : s[i] = NL})

\* the whitespace-separated words of the lower-cased query: its maximal runs
\* of characters that are not whitespace
QueryWords(query) ==
    LET s == Lower(query)
    IN  { SubSeq(s, p[1], p[2]) :
            p \in { x \in (1..Len(s)) \X (1..Len(s)) :
                      /\ x[1] <= x[2]
                      /\ \A k \in x[1]..x[2] : s[k] \notin Whitespace
                      /\ (x[1] = 1 \/ s[x[1] - 1] \in Whitespace)
                      /\ (x[2] = Len(s) \/ s[x[2] + 1] \in Whitespace) } }

\* a line matches iff its lower-cased text contains a word of the lower-cased
\* query as a substring
MatchesQuery(line, query) ==
    \E w \in QueryWords(query) : \E pre, suf \in 0..Len(line) :
        /\ pre + Len(w) + suf = Len(line)
        /\ SubSeq(Lower(line), pre + 1, pre + Len(w)) = w

\* the Knowledge Base positions of the matching lines
MatchingIdx(query) == {i \in 1..Len(RAG_KB) : MatchesQuery(RAG_KB[i], query)}

\* the first n matching lines, in Knowledge Base order
RECURSIVE FirstMatches(_, _, _)
FirstMatches(query, n, from) ==
    IF n <= 0 \/ ~(\E i \in MatchingIdx(query) : i >= from) THEN <<>>
    ELSE LET i == CHOOSE i \in MatchingIdx(query) :
                      i >= from /\ \A k \in MatchingIdx(query) : k >= from => i <= k
         IN  <<RAG_KB[i]>> \o FirstMatches(query, n - 1, i + 1)

\* C1: for every Knowledge Base, query and integer limit L, zero and negative
\* included, the returned context holds at most L Knowledge Lines.
C1_AtMostLimit ==
    h_pc = "returned" => NumLines(h_ret) <= h_limit

\* C2: for L >= 1 the returned context is exactly the first
\* min(L, number of matching lines) matching lines, in Knowledge Base order,
\* joined by newline; the empty string when no line matches.
C2_FirstMatchesJoined ==
    (h_pc = "returned" /\ h_limit >= 1) =>
        /\ h_ret = Join(FirstMatches(h_query,
                                     Min(h_limit, Cardinality(MatchingIdx(h_query))),
                                     1), <<NL>>)
        /\ (MatchingIdx(h_query) = {} => h_ret = <<>>)
        /\ (/\ RAG_KB = << <<"a", "p", "h", "i", "d", " ", "c", "o", "l", "o", "n", "y">>, <<"f", "u", "n", "g", "u", "s", " ", "s", "t", "e", "m", " ", "l", "o", "w">> >>
            /\ h_query = <<"a", "p", "h", "i", "d", " ", "t", "r", "e", "a", "t", "m", "e", "n", "t">>) => h_ret = <<"a", "p", "h", "i", "d", " ", "c", "o", "l", "o", "n", "y">>

\* C2 witness: more lines match than the limit allows, after a line that does
\* not match, and the context returned is cut at the limit.
C2_Witness ==
    /\ h_pc = "returned"
    /\ h_limit = 1
    /\ Cardinality(MatchingIdx(h_query)) = 2
    /\ Len(RAG_KB) = 3
    /\ 1 \notin MatchingIdx(h_query)
    /\ h_ret = RAG_KB[2]

NextRetrieve == CallRetrieve

SpecRetrieve == InitRetrieve /\ [][NextRetrieve]_vars

-----------------------------------------------------------------------------
(* Startup: credential resolution, then the Knowledge Base loader *)

NoFail == -1
MaxFiles == 2

EnvKeys  == { None, <<>>, <<"g", "s", "k", "1">> }
KeyFiles == { Absent, <<>>, <<" ", "\n">>, <<"g", "s", "k", "2", "\n">> }

\* `not GROQ_API_KEY`: None and the empty string are falsy
Falsy(v) == v = None \/ v = <<>>

\* file iteration: the text cut after each newline, the newline kept
RECURSIVE RawLinesFrom(_, _, _)
RawLinesFrom(s, i, cur) ==
    IF i > Len(s)
    THEN (IF cur = <<>> THEN <<>> ELSE <<cur>>)
    ELSE IF s[i] = NL
         THEN <<Append(cur, NL)>> \o RawLinesFrom(s, i + 1, <<>>)
         ELSE RawLinesFrom(s, i + 1, Append(cur, s[i]))

RawLines(s) == RawLinesFrom(s, 1, <<>>)

\* csv.reader on one physical line without quote characters: the line
\* terminator dropped, the rest cut at each comma; a blank line is the row []
RECURSIVE CsvFieldsFrom(_, _, _)
CsvFieldsFrom(s, i, cur) ==
    IF i > Len(s) THEN <<cur>>
    ELSE IF s[i] = ","
         THEN <<cur>> \o CsvFieldsFrom(s, i + 1, <<>>)
         ELSE CsvFieldsFrom(s, i + 1, Append(cur, s[i]))

CsvRow(raw) ==
    LET body == IF raw # <<>> /\ raw[Len(raw)] = NL
                THEN SubSeq(raw, 1, Len(raw) - 1) ELSE raw
    IN  IF body = <<>> THEN <<>> ELSE CsvFieldsFrom(body, 1, <<>>)

\* the lines one raw line adds to RAG_KB in the .csv branch
CsvAppend(raw) == << Join(CsvRow(raw), <<" ">>) >>

\* the .txt branch appending the line as read, not stripped
TxtAppend_unstripped(raw) == IF Strip(raw) # <<>> THEN << raw >> ELSE <<>>

\* the lines one raw line adds to RAG_KB in the .txt branch
TxtAppend(raw) == IF Strip(raw) # <<>> THEN << Strip(raw) >> ELSE <<>>

RECURSIVE AppendEach(_, _)
AppendEach(raws, csv) ==
    IF raws = <<>> THEN <<>>
    ELSE (IF csv THEN CsvAppend(raws[1]) ELSE TxtAppend(raws[1]))
         \o AppendEach(Tail(raws), csv)

\* one iteration of the loader's for loop: what file f adds to RAG_KB.  f.fail
\* is the number of lines read before the open or the read raises, NoFail if
\* neither does; the except clause keeps what was appended before.
Loaded(f) ==
    LET raws == RawLines(f.content)
        read == IF f.fail = NoFail THEN raws
                ELSE SubSeq(raws, 1, Min(f.fail, Len(raws)))
    IN  IF EndsWith(f.name, <<".", "c", "s", "v">>) THEN AppendEach(read, TRUE)
        ELSE IF EndsWith(f.name, <<".", "t", "x", "t">>) THEN AppendEach(read, FALSE)
        ELSE <<>>

\* the whole loader on a listing
RECURSIVE LoadFiles(_)
LoadFiles(files) ==
    IF files = <<>> THEN <<>>
    ELSE Loaded(files[1]) \o LoadFiles(Tail(files))

LoadAll(dir) == IF dir.exists THEN LoadFiles(dir.files) ELSE <<>>

BaseFiles ==
    { [name |-> <<"a", ".", "c", "s", "v">>, content |-> <<"a", "p", "h", "i", "d", ",", "l", "e", "a", "f", ",", "h", "i", "g", "h", "\n", "f", "u", "n", "g", "u", "s", ",", "s", "t", "e", "m", ",", "l", "o", "w", "\n">>],
      [name |-> <<"b", ".", "c", "s", "v">>, content |-> <<"a", ",", ",", "b", "\n", "\n", " ", "c">>],
      [name |-> <<"c", ".", "t", "x", "t">>, content |-> <<"w", "h", "i", "t", "e", "f", "l", "y", " ", "i", "n", "f", "e", "s", "t", "a", "t", "i", "o", "n", "\n", "\n", " ", " ", "\n", "a", "p", "h", "i", "d", " ", "c", "o", "l", "o", "n", "y", "\n">>],
      [name |-> <<"d", ".", "t", "x", "t">>, content |-> <<" ", "M", "i", "t", "e", "\t">>],
      [name |-> <<"e", ".", "m", "d">>,  content |-> <<"n", "o", "t", "e", "s", "\n">>] }

Opened(name) == EndsWith(name, <<".", "c", "s", "v">>) \/ EndsWith(name, <<".", "t", "x", "t">>)

FailPoints(b) ==
    IF Opened(b.name) THEN {NoFail} \cup (0..(Len(RawLines(b.content)) - 1))
    ELSE {NoFail}

Files ==
    UNION { { [name |-> b.name, content |-> b.content, fail |-> k] :
                k \in FailPoints(b) } : b \in BaseFiles }

Dirs == {NoDir} \cup { Listing(fs) : fs \in SeqsUpTo(Files, MaxFiles) }

InitBoot ==
    /\ phase = "startup"
    /\ env_key \in EnvKeys
    /\ key_file \in KeyFiles
    /\ GROQ_API_KEY = None
    /\ data_dir \in Dirs
    /\ file_idx = 0
    /\ RAG_KB = <<>>
    /\ SrvQuiet
    /\ HarnQuiet

\* lines 26-36: the environment variable, else the fallback file stripped;
\* FileNotFoundError becomes RuntimeError and the import fails.  Groq(api_key=s)
\* accepts any string s.
ResolveKey ==
    /\ phase = "startup"
    /\ IF ~Falsy(env_key)
       THEN GROQ_API_KEY' = env_key /\ phase' = "loading"
       ELSE IF key_file = Absent
            THEN GROQ_API_KEY' = env_key /\ phase' = "refused"
            ELSE GROQ_API_KEY' = Strip(key_file) /\ phase' = "loading"
    /\ UNCHANGED <<env_key, key_file, data_dir, file_idx, RAG_KB, srvVars, harnVars>>

\* lines 55, 70-71: no data folder, a warning, and the import goes on
LoadMissingDir ==
    /\ phase = "loading"
    /\ ~data_dir.exists
    /\ phase' = "serving"
    /\ UNCHANGED <<env_key, key_file, GROQ_API_KEY, data_dir, file_idx, RAG_KB,
                   srvVars, harnVars>>

\* lines 56-69: one file of the listing
LoadFile ==
    /\ phase = "loading"
    /\ data_dir.exists
    /\ file_idx < Len(data_dir.files)
    /\ RAG_KB' = RAG_KB \o Loaded(data_dir.files[file_idx + 1])
    /\ file_idx' = file_idx + 1
    /\ UNCHANGED <<phase, env_key, key_file, GROQ_API_KEY, data_dir, srvVars, harnVars>>

\* the listing is exhausted; the rest of the module runs and the app serves
LoadDone ==
    /\ phase = "loading"
    /\ data_dir.exists
    /\ file_idx = Len(data_dir.files)
    /\ phase' = "serving"
    /\ UNCHANGED <<env_key, key_file, GROQ_API_KEY, data_dir, file_idx, RAG_KB,
                   srvVars, harnVars>>

NextBoot == ResolveKey \/ LoadMissingDir \/ LoadFile \/ LoadDone

SpecBoot == InitBoot /\ [][NextBoot]_vars

\* the stepwise loader ends where the loader as a whole does
LoaderAgrees == phase = "serving" => RAG_KB = LoadAll(data_dir)

\* the loader on the example files: two rows, a text with blank lines, and
\* rows with an empty field, a blank row and no final newline
ExampleLoad ==
    /\ Loaded([name |-> <<"a", ".", "c", "s", "v">>, content |-> <<"a", "p", "h", "i", "d", ",", "l", "e", "a", "f", ",", "h", "i", "g", "h", "\n", "f", "u", "n", "g", "u", "s", ",", "s", "t", "e", "m", ",", "l", "o", "w", "\n">>,
               fail |-> NoFail])
         = << <<"a", "p", "h", "i", "d", " ", "l", "e", "a", "f", " ", "h", "i", "g", "h">>, <<"f", "u", "n", "g", "u", "s", " ", "s", "t", "e", "m", " ", "l", "o", "w">> >>
    /\ Loaded([name |-> <<"c", ".", "t", "x", "t">>,
               content |-> <<"w", "h", "i", "t", "e", "f", "l", "y", " ", "i", "n", "f", "e", "s", "t", "a", "t", "i", "o", "n", "\n", "\n", " ", " ", "\n", "a", "p", "h", "i", "d", " ", "c", "o", "l", "o", "n", "y", "\n">>,
               fail |-> NoFail])
         = << <<"w", "h", "i", "t", "e", "f", "l", "y", " ", "i", "n", "f", "e", "s", "t", "a", "t", "i", "o", "n">>, <<"a", "p", "h", "i", "d", " ", "c", "o", "l", "o", "n", "y">> >>
    /\ Loaded([name |-> <<"b", ".", "c", "s", "v">>, content |-> <<"a", ",", ",", "b", "\n", "\n", " ", "c">>, fail |-> NoFail])
         = << <<"a", " ", " ", "b">>, <<>>, <<" ", "c">> >>

-----------------------------------------------------------------------------
(* The reference sequence of the Knowledge Base *)

\* the k-th smallest element of a set of integers
Kth(P, k) == CHOOSE x \in P : Cardinality({y \in P : y < x}) = k - 1

\* where the lines of a text end: before its first character, at each newline,
\* and after its last character when no newline ends the text
Cuts(s) ==
    {0} \cup {i \in 1..Len(s) : s[i] = NL}
        \cup (IF s # <<>> /\ s[Len(s)] # NL THEN {Len(s) + 1} ELSE {})

\* the lines of a text, line terminators removed
RefLines(s) ==
    [k \in 1..(Cardinality(Cuts(s)) - 1) |->
        SubSeq(s, Kth(Cuts(s), k) + 1, Kth(Cuts(s), k + 1) - 1)]

\* a CSV row's fields joined by one space: the row with a space for each comma
RefCsvLine(row) == [i \in 1..Len(row) |-> IF row[i] = "," THEN " " ELSE row[i]]

\* a text line trimmed: from its first to its last non-whitespace character
RefTrim(line) ==
    LET ink == {i \in 1..Len(line) : line[i] \notin Whitespace}
    IN  IF ink = {} THEN <<>>
        ELSE SubSeq(line, Kth(ink, 1), Kth(ink, Cardinality(ink)))

NonBlank(line) == line # <<>>

\* the Knowledge Lines of the first n physical lines of a file
RefFile(f, n) ==
    LET len == Len(f.name)
        ext == IF len >= 4 THEN SubSeq(f.name, len - 3, len) ELSE <<>>
        ls  == SubSeq(RefLines(f.content), 1, n)
    IN  IF ext = <<".", "c", "s", "v">> THEN [k \in 1..Len(ls) |-> RefCsvLine(ls[k])]
        ELSE IF ext = <<".", "t", "x", "t">>
             THEN SelectSeq([k \in 1..Len(ls) |-> RefTrim(ls[k])], NonBlank)
             ELSE <<>>

\* the Knowledge Lines of a whole file
RefWhole(f) == RefFile(f, Len(RefLines(f.content)))

\* files in listing order, each file's lines in file order; a file whose load
\* fails counts for nothing, or with `partial` for the lines read before
RECURSIVE RefConcat(_, _)
RefConcat(files, partial) ==
    IF files = <<>> THEN <<>>
    ELSE (IF files[1].fail = NoFail THEN RefWhole(files[1])
          ELSE IF partial THEN RefFile(files[1], files[1].fail)
          ELSE <<>>)
         \o RefConcat(Tail(files), partial)

\* C5: whatever the environment variable and the fallback file hold, the
\* process never reaches the serving state with no credential or an empty one.
C5_NoEmptyCredential ==
    phase = "serving" => ~Falsy(GROQ_API_KEY)

\* C7: the loader never aborts, and the Knowledge Base it ends with is the
\* concatenation of the lines of the files that did not fail; a failing file
\* contributes nothing.
C7_FailingFileSkipped ==
    /\ phase = "refused" => (Falsy(env_key) /\ key_file = Absent)
    /\ (phase = "serving" /\ data_dir.exists) =>
           RAG_KB = RefConcat(data_dir.files, FALSE)

\* C8: the loader's result is the reference sequence: empty without a data
\* folder (which never stops the startup), else per file in listing order one
\* line per CSV row, its fields joined by one space, one trimmed line per
\* non-blank text line, nothing for other extensions; no reordering, no
\* deduplication.  Of a file whose load fails, the reference is taken of the
\* lines read before the failure.
C8_LoaderIsReference ==
    /\ phase = "refused" => (Falsy(env_key) /\ key_file = Absent)
    /\ (phase = "serving" /\ ~data_dir.exists) => RAG_KB = <<>>
    /\ (phase = "serving" /\ data_dir.exists) =>
           RAG_KB = RefConcat(data_dir.files, TRUE)
    /\ ExampleLoad

\* C8 witness: a text file and a tabular file loaded in listing order, the
\* blank lines of the first dropped and the rows of the second joined.
C8_Witness ==
    /\ phase = "serving"
    /\ data_dir.exists
    /\ Len(data_dir.files) = 2
    /\ data_dir.files[1].name = <<"c", ".", "t", "x", "t">> /\ data_dir.files[1].fail = NoFail
    /\ data_dir.files[2].name = <<"a", ".", "c", "s", "v">> /\ data_dir.files[2].fail = NoFail
    /\ RAG_KB = << <<"w", "h", "i", "t", "e", "f", "l", "y", " ", "i", "n", "f", "e", "s", "t", "a", "t", "i", "o", "n">>, <<"a", "p", "h", "i", "d", " ", "c", "o", "l", "o", "n", "y">>,
                   <<"a", "p", "h", "i", "d", " ", "l", "e", "a", "f", " ", "h", "i", "g", "h">>, <<"f", "u", "n", "g", "u", "s", " ", "s", "t", "e", "m", " ", "l", "o", "w">> >>

-----------------------------------------------------------------------------
(* Serving: the handlers as coroutines of one event loop *)

\* the data folders the serving process was started on
ServingDirs ==
    { NoDir,
      Listing(<< [name |-> <<"c", ".", "t", "x", "t">>,
                  content |-> <<"w", "h", "i", "t", "e", "f", "l", "y", " ", "i", "n", "f", "e", "s", "t", "a", "t", "i", "o", "n", "\n", "\n", " ", " ", "\n", "a", "p", "h", "i", "d", " ", "c", "o", "l", "o", "n", "y", "\n">>,
                  fail |-> NoFail],
                 [name |-> <<"a", ".", "c", "s", "v">>,
                  content |-> <<"a", "p", "h", "i", "d", ",", "l", "e", "a", "f", ",", "h", "i", "g", "h", "\n", "f", "u", "n", "g", "u", "s", ",", "s", "t", "e", "m", ",", "l", "o", "w", "\n">>,
                  fail |-> NoFail] >>) }

ChatPayloads ==
    { [kind |-> "chat", ctype |-> "json",  parses |-> TRUE,
       message |-> <<"a", "p", "h", "i", "d", " ", "t", "r", "e", "a", "t", "m", "e", "n", "t">>, prompt |-> None],
      [kind |-> "chat", ctype |-> "json",  parses |-> TRUE,
       message |-> <<>>, prompt |-> None],
      [kind |-> "chat", ctype |-> "json",  parses |-> TRUE,
       message |-> None, prompt |-> None],
      [kind |-> "chat", ctype |-> "json",  parses |-> TRUE,
       message |-> None, prompt |-> <<"S", "t", "e", "m", " ", "r", "o", "t">>],
      [kind |-> "chat", ctype |-> "json",  parses |-> FALSE,
       message |-> None, prompt |-> None],
      [kind |-> "chat", ctype |-> "form",  parses |-> TRUE,
       message |-> <<"a", "p", "h", "i", "d", " ", "t", "r", "e", "a", "t", "m", "e", "n", "t">>, prompt |-> None],
      [kind |-> "chat", ctype |-> "form",  parses |-> TRUE,
       message |-> None, prompt |-> None],
      [kind |-> "chat", ctype |-> "other", parses |-> TRUE,
       message |-> <<"a", "p", "h", "i", "d", " ", "t", "r", "e", "a", "t", "m", "e", "n", "t">>, prompt |-> None] }

ImagePayloads ==
    { [kind |-> "image", opens |-> TRUE], [kind |-> "image", opens |-> FALSE] }

\* transcript: what recognize_google returns, None when the audio cannot be
\* read or recognised
VoicePayloads ==
    { [kind |-> "voice", transcript |-> <<"w", "h", "i", "t", "e", "f", "l", "y">>],
      [kind |-> "voice", transcript |-> None] }

RootPayloads == { [kind |-> "root"] }

Payloads == ChatPayloads \cup ImagePayloads \cup VoicePayloads \cup RootPayloads

\* the text the external service generates
Content == <<" ", "s", "p", "r", "a", "y", " ", "n", "e", "e", "m", " ", "o", "i", "l", "\n">>

\* a or b
Or(a, b) == IF Falsy(a) THEN b ELSE a

Ok(answer)     == [status |-> 200, answer |-> answer]
HttpError(code) == [status |-> code, answer |-> None]

\* ask_groq answering with a local text when the external call raises
ask_groq_fallback(ok) ==
    IF ok THEN [raised |-> FALSE, value |-> Strip(Content)]
    ELSE [raised |-> FALSE, value |-> <<"n", "o", " ", "a", "n", "s", "w", "e", "r">>]

\* lines 97-108: the external call made once; its answer stripped, or any
\* exception turned into HTTPException(500)
ask_groq(ok) ==
    IF ok THEN [raised |-> FALSE, value |-> Strip(Content)]
    ELSE [raised |-> TRUE, value |-> HttpError(500)]

Init ==
    /\ phase = "serving"
    /\ env_key = <<"g", "s", "k", "1">> /\ key_file = Absent /\ GROQ_API_KEY = <<"g", "s", "k", "1">>
    /\ data_dir \in ServingDirs
    /\ file_idx = Len(data_dir.files)
    /\ RAG_KB = LoadAll(data_dir)
    /\ SrvQuiet
    /\ HarnQuiet

Finish(r, response) ==
    /\ resp' = [resp EXCEPT ![r] = response]
    /\ pc' = [pc EXCEPT ![r] = "done"]
    /\ running' = 0

\* the synchronous path into ask_groq up to the external call, which holds
\* the event loop until it returns
EnterGroq(r, context) ==
    /\ ctx' = [ctx EXCEPT ![r] = context]
    /\ groq_calls' = [groq_calls EXCEPT ![r] = @ + 1]
    /\ pc' = [pc EXCEPT ![r] = "in_groq"]
    /\ running' = r

\* a client sends a request
Arrive(r) ==
    /\ phase = "serving"
    /\ pc[r] = "idle"
    /\ \E p \in Payloads : req' = [req EXCEPT ![r] = p]
    /\ pc' = [pc EXCEPT ![r] = "ready"]
    /\ UNCHANGED <<bootVars, RAG_KB, rag, ctx, resp, retrieve_calls, groq_calls,
                   groq_failed, running, harnVars>>

\* chat, lines 136-148 up to the first await; with no JSON or form content
\* type the message stays None, and the HTTPException(400) raised inside the
\* try is caught by `except Exception` and raised again as 500
chat_begin(r) ==
    /\ running = 0
    /\ pc[r] = "ready"
    /\ req[r].kind = "chat"
    /\ IF req[r].ctype \in {"json", "form"}
       THEN /\ pc' = [pc EXCEPT ![r] = "await_body"]
            /\ UNCHANGED <<resp, running>>
       ELSE Finish(r, HttpError(500))
    /\ UNCHANGED <<bootVars, RAG_KB, req, rag, ctx, retrieve_calls, groq_calls,
                   groq_failed, harnVars>>

\* chat keeping each message it answers as a new Knowledge Line
chat_resume_remember(r) ==
    /\ running = 0
    /\ pc[r] = "await_body"
    /\ LET message == Or(req[r].message, req[r].prompt)
       IN  IF ~req[r].parses \/ Falsy(message)
           THEN /\ Finish(r, HttpError(500))
                /\ UNCHANGED <<RAG_KB, rag, ctx, retrieve_calls, groq_calls>>
           ELSE /\ rag' = [rag EXCEPT ![r] =
                              retrieve_relevant_chunks(message, DefaultLimit)]
                /\ RAG_KB' = Append(RAG_KB, message)
                /\ retrieve_calls' = [retrieve_calls EXCEPT ![r] = @ + 1]
                /\ EnterGroq(r, rag'[r])
                /\ UNCHANGED resp
    /\ UNCHANGED <<bootVars, req, groq_failed, harnVars>>

\* chat, lines 141-151 after the await: the body parsed, the message checked,
\* the retrieval, and ask_groq entered
chat_resume(r) ==
    /\ running = 0
    /\ pc[r] = "await_body"
    /\ LET message == Or(req[r].message, req[r].prompt)
       IN  IF ~req[r].parses \/ Falsy(message)
           THEN /\ Finish(r, HttpError(500))
                /\ UNCHANGED <<rag, ctx, retrieve_calls, groq_calls>>
           ELSE /\ rag' = [rag EXCEPT ![r] =
                              retrieve_relevant_chunks(message, DefaultLimit)]
                /\ retrieve_calls' = [retrieve_calls EXCEPT ![r] = @ + 1]
                /\ EnterGroq(r, rag'[r])
                /\ UNCHANGED resp
    /\ UNCHANGED <<bootVars, RAG_KB, req, groq_failed, harnVars>>

\* chat, lines 151-156: the external call returns or raises; the
\* HTTPException(500) of ask_groq is caught and raised again as 500
chat_finish(r) ==
    /\ running = r
    /\ pc[r] = "in_groq"
    /\ req[r].kind = "chat"
    /\ \E ok \in BOOLEAN :
         /\ groq_failed' = [groq_failed EXCEPT ![r] = ~ok]
         /\ IF ask_groq(ok).raised
            THEN Finish(r, HttpError(500))
            ELSE Finish(r, Ok(ask_groq(ok).value))
    /\ UNCHANGED <<bootVars, RAG_KB, req, rag, ctx, retrieve_calls, groq_calls,
                   harnVars>>

\* analyze_image, lines 165-183: no await; the image opened and encoded, or
\* 400; ask_groq entered with the default rag_context ""
analyze_image_begin(r) ==
    /\ running = 0
    /\ pc[r] = "ready"
    /\ req[r].kind = "image"
    /\ IF ~req[r].opens
       THEN /\ Finish(r, HttpError(400))
            /\ UNCHANGED <<ctx, groq_calls>>
       ELSE /\ EnterGroq(r, <<>>)
            /\ UNCHANGED resp
    /\ UNCHANGED <<bootVars, RAG_KB, req, rag, retrieve_calls, groq_failed, harnVars>>

\* analyze_image, lines 183-184
analyze_image_finish(r) ==
    /\ running = r
    /\ pc[r] = "in_groq"
    /\ req[r].kind = "image"
    /\ \E ok \in BOOLEAN :
         /\ groq_failed' = [groq_failed EXCEPT ![r] = ~ok]
         /\ IF ask_groq(ok).raised
            THEN Finish(r, ask_groq(ok).value)
            ELSE Finish(r, Ok(ask_groq(ok).value))
    /\ UNCHANGED <<bootVars, RAG_KB, req, rag, ctx, retrieve_calls, groq_calls,
                   harnVars>>

\* voice_chat, line 194: suspended in `await file.read()`
voice_chat_begin(r) ==
    /\ running = 0
    /\ pc[r] = "ready"
    /\ req[r].kind = "voice"
    /\ pc' = [pc EXCEPT ![r] = "await_read"]
    /\ UNCHANGED <<bootVars, RAG_KB, req, rag, ctx, resp, retrieve_calls, groq_calls,
                   groq_failed, running, harnVars>>

\* voice_chat, lines 195-203: the transcription or 400, the retrieval, and
\* ask_groq entered
voice_chat_resume(r) ==
    /\ running = 0
    /\ pc[r] = "await_read"
    /\ IF req[r].transcript = None
       THEN /\ Finish(r, HttpError(400))
            /\ UNCHANGED <<rag, ctx, retrieve_calls, groq_calls>>
       ELSE /\ rag' = [rag EXCEPT ![r] =
                          retrieve_relevant_chunks(req[r].transcript, DefaultLimit)]
            /\ retrieve_calls' = [retrieve_calls EXCEPT ![r] = @ + 1]
            /\ EnterGroq(r, rag'[r])
            /\ UNCHANGED resp
    /\ UNCHANGED <<bootVars, RAG_KB, req, groq_failed, harnVars>>

\* voice_chat, lines 203-204
voice_chat_finish(r) ==
    /\ running = r
    /\ pc[r] = "in_groq"
    /\ req[r].kind = "voice"
    /\ \E ok \in BOOLEAN :
         /\ groq_failed' = [groq_failed EXCEPT ![r] = ~ok]
         /\ IF ask_groq(ok).raised
            THEN Finish(r, ask_groq(ok).value)
            ELSE Finish(r, Ok(ask_groq(ok).value))
    /\ UNCHANGED <<bootVars, RAG_KB, req, rag, ctx, retrieve_calls, groq_calls,
                   harnVars>>

\* root, lines 210-212
root(r) ==
    /\ running = 0
    /\ pc[r] = "ready"
    /\ req[r].kind = "root"
    /\ Finish(r, Ok(None))
    /\ UNCHANGED <<bootVars, RAG_KB, req, rag, ctx, retrieve_calls, groq_calls,
                   groq_failed, harnVars>>

\* what the event loop can run for request r when it is free
HandlerStep(r) ==
    \/ chat_begin(r) \/ chat_resume(r)
    \/ analyze_image_begin(r)
    \/ voice_chat_begin(r) \/ voice_chat_resume(r)
    \/ root(r)

Next ==
    \E r \in Reqs :
        \/ Arrive(r)
        \/ chat_begin(r) \/ chat_resume(r) \/ chat_finish(r)
        \/ analyze_image_begin(r) \/ analyze_image_finish(r)
        \/ voice_chat_begin(r) \/ voice_chat_resume(r) \/ voice_chat_finish(r)
        \/ root(r)

Spec == Init /\ [][Next]_vars

-----------------------------------------------------------------------------
(* Claims about the handlers *)

\* the query a request hands to the retrieval
QueryOf(p) ==
    IF p.kind = "chat" THEN Or(p.message, p.prompt)
    ELSE IF p.kind = "voice" THEN p.transcript
    ELSE None

\* a request whose input fails validation: a chat body with no message and
\* no prompt, an upload that does not open as an image, audio that cannot be
\* transcribed
InvalidInput(p) ==
    \/ p.kind = "chat" /\ p.ctype \in {"json", "form"} /\ p.parses
                       /\ Falsy(p.message) /\ Falsy(p.prompt)
    \/ p.kind = "image" /\ ~p.opens
    \/ p.kind = "voice" /\ p.transcript = None

\* C3: a request whose input fails validation ends with a 4xx response, and
\* neither the retrieval nor the external generation call ran for it.
C3_ValidationIsClientError ==
    \A r \in Reqs :
        (pc[r] = "done" /\ InvalidInput(req[r])) =>
            /\ resp[r].status \in 400..499
            /\ retrieve_calls[r] = 0
            /\ groq_calls[r] = 0

\* C4: a request whose external generation call failed ends with an error
\* response that carries no answer, made the external call exactly once, and
\* leaves the process serving with the event loop released.
C4_GenerationFailureReported ==
    \A r \in Reqs :
        groq_failed[r] =>
            /\ pc[r] = "done"
            /\ resp[r].status >= 400
            /\ resp[r].answer = None
            /\ groq_calls[r] = 1
            /\ phase = "serving"
            /\ running # r

\* C4 witness: one request has ended on a failed external call, and a request
\* handled after it is inside its own external call.
C4_Witness ==
    \E r, s \in Reqs :
        /\ groq_failed[r] /\ pc[r] = "done" /\ resp[r].status = 500
        /\ s # r /\ pc[s] = "in_groq" /\ running = s

\* C6: every request that reaches the external generation call, on the chat,
\* image and voice paths alike, has called the retrieval on its query first,
\* and the context ask_groq received is that retrieval result.
C6_RetrievalBeforeGeneration ==
    \A r \in Reqs :
        groq_calls[r] >= 1 =>
            /\ retrieve_calls[r] >= 1
            /\ ctx[r] = rag[r]

\* C9: while serving, the Knowledge Base is the value the loader ended with,
\* whatever requests have run, and two retrievals of the same query have
\* returned the same string.
C9_KnowledgeBaseReadOnly ==
    phase = "serving" =>
        /\ RAG_KB = LoadAll(data_dir)
        /\ \A r, s \in Reqs :
              (/\ retrieve_calls[r] >= 1 /\ retrieve_calls[s] >= 1
               /\ QueryOf(req[r]) = QueryOf(req[s])) => rag[r] = rag[s]

\* C9 witness: two requests of different endpoints have both retrieved on a
\* loaded Knowledge Base and one of them has completed.
C9_Witness ==
    \E r, s \in Reqs :
        /\ r # s
        /\ RAG_KB # <<>>
        /\ req[r].kind = "chat" /\ req[s].kind = "voice"
        /\ retrieve_calls[r] = 1 /\ retrieve_calls[s] = 1
        /\ rag[r] # <<>> /\ rag[s] # <<>>
        /\ pc[r] = "done"

\* C10: while a handler waits for the external generation call, every other
\* in-flight request can still take its next step.
C10_OthersProgressDuringCall ==
    \A r, s \in Reqs :
        (/\ pc[r] = "in_groq"
         /\ s # r
         /\ pc[s] \in {"ready", "await_body", "await_read"}) =>
            ENABLED HandlerStep(s)

=============================================================================
